---- MODULE Spec2Model ----
(***************************************************************************)
(* Gameplay/scoring state machine and target lifecycle of src/script.js.   *)
(*                                                                         *)
(* Representation.  Times (deltaTime, timeSinceLastSpawn,                  *)
(* targetSpawnInterval) are integers counting tenths of a second, and      *)
(* multipliers are integers counting tenths (1.0 is 10, 1.5 is 15), so     *)
(* every product points * comboMultiplier of the program is an exact       *)
(* integer number of tenths.  Of a position only the y coordinate is kept: *)
(* it is the only coordinate a branch of the program reads.  A mesh is     *)
(* identified by its uuid, a body by its id; scene and physicsWorld hold   *)
(* the target meshes and target bodies registered with them (the lights    *)
(* and the ground, registered once in init and never removed, are left     *)
(* out).                                                                   *)
(***************************************************************************)
EXTENDS Integers, Sequences, FiniteSets, TLC

VARIABLES
    assetsLoaded,         \* let assetsLoaded
    audioContext,         \* TRUE iff init created the audio context
    itemsLoaded,          \* loading manager: items ended so far
    itemsTotal,           \* loading manager: items started
    loadingElement,       \* [display, innerText] of the loading indicator
    score,
    consecutiveHits,
    comboMultiplier,      \* in tenths
    targets,              \* the tracking array
    scene,                \* uuids of the target meshes in the scene
    physicsWorld,         \* ids of the target bodies in the physics world
    targetSpawnInterval,  \* in tenths of a second
    timeSinceLastSpawn,   \* in tenths of a second
    nextUuid,             \* the uuid the next mesh gets
    pointsEarned,         \* pointsEarned of the latest processHit
    trace,                \* the calls made by the latest handler, in order
    retireCount,          \* per uuid, how often removeTarget ran on it
    hitsSinceMiss,        \* observer: processHit calls since the last processMiss
    expectedScore,        \* observer: the sum the scoring contract prescribes
    spawnsLeft,           \* environment: spawns the session may still make
    roundTrip             \* observer: the array before the latest spawn, see Observed

vars == <<assetsLoaded, audioContext, itemsLoaded, itemsTotal, loadingElement,
          score, consecutiveHits, comboMultiplier, targets, scene, physicsWorld,
          targetSpawnInterval, timeSinceLastSpawn, nextUuid, pointsEarned,
          trace, retireCount, hitsSinceMiss, expectedScore, spawnsLeft,
          roundTrip>>

(***************************************************************************)
(* Bounds of the model.                                                    *)
(***************************************************************************)
\* Spec: targets spawned in a session.
MaxSpawns == 2
\* SpecStreak: hits of the warm-up, targets spawned after it, targets alive at once.
MaxWarmUp == 14
MaxStreakSpawns == 2
MaxLive == 1
\* SpecFill: targets spawned in a session.
MaxFillSpawns == 16
\* timeSinceLastSpawn a frame may reach (it grows without bound while no spawn is due).
MaxTime == 16
\* meshes one ray is taken to intersect.
MaxIntersects == 2

(***************************************************************************)
(* Program constants.                                                      *)
(***************************************************************************)
TypeKeys == {"STANDARD", "BONUS", "PENALTY"}

targetTypes ==
    [k \in TypeKeys |->
        CASE k = "STANDARD" -> [points |-> 10, sound |-> "hit_standard"]
          [] k = "BONUS"    -> [points |-> 25, sound |-> "hit_bonus"]
          [] k = "PENALTY"  -> [points |-> -15, sound |-> "hit_penalty"]]

maxTargets == 15

\* let targetSpawnInterval = 1.0
InitialSpawnInterval == 10

\* The keys of COMBO_THRESHOLDS in the order for...in enumerates them
\* (integer-like keys, ascending).
ThresholdKeys == <<1, 5, 10, 15>>

COMBO_THRESHOLDS == (1 :> 10) @@ (5 :> 15) @@ (10 :> 20) @@ (15 :> 30)

\* body.position.y < -10 retires a target
OutOfBoundsY == -10

\* The four sound files loadSounds hands to the loader.
SoundFiles == {"hit_standard", "hit_bonus", "hit_penalty", "miss"}

\* hitObject.userData.targetData of a mesh that has none
NoTargetData == 0

Min(S) == CHOOSE x \in S : \A y \in S : x <= y

Max(S) == CHOOSE x \in S : \A y \in S : x >= y

(***************************************************************************)
(* Inputs.                                                                 *)
(***************************************************************************)
\* clock.getDelta(), tenths of a second
DeltaTimes == {0, 8}
\* 0.8 + Math.random() * 0.7, tenths of a second (Math.random() < 1)
SpawnIntervals == {8, 14}
\* Math.random() * 5 + 2
SpawnYs == {2}
\* body.position.y after a physics step
BodyYs == {-11, -10, 2}

(***************************************************************************)
(* The program state as one record, threaded through the calls a handler   *)
(* makes.                                                                  *)
(***************************************************************************)
G ==
    [assetsLoaded |-> assetsLoaded,
     audioContext |-> audioContext,
     itemsLoaded |-> itemsLoaded,
     itemsTotal |-> itemsTotal,
     loadingElement |-> loadingElement,
     score |-> score,
     consecutiveHits |-> consecutiveHits,
     comboMultiplier |-> comboMultiplier,
     targets |-> targets,
     scene |-> scene,
     physicsWorld |-> physicsWorld,
     targetSpawnInterval |-> targetSpawnInterval,
     timeSinceLastSpawn |-> timeSinceLastSpawn,
     nextUuid |-> nextUuid,
     pointsEarned |-> pointsEarned,
     trace |-> trace,
     retireCount |-> retireCount,
     hitsSinceMiss |-> hitsSinceMiss,
     expectedScore |-> expectedScore,
     spawnsLeft |-> spawnsLeft,
     roundTrip |-> roundTrip]

Call(g, op, id) == [g EXCEPT !.trace = Append(@, [op |-> op, id |-> id])]

(***************************************************************************)
(* Scoring.                                                                *)
(***************************************************************************)
\* mutant: a threshold takes effect one hit late
RECURSIVE updateComboLoopLate(_, _, _)
updateComboLoopLate(hits, i, newMultiplier) ==
    IF i > Len(ThresholdKeys) THEN newMultiplier
    ELSE updateComboLoopLate(hits, i + 1,
            IF hits > ThresholdKeys[i]
            THEN COMBO_THRESHOLDS[ThresholdKeys[i]]
            ELSE newMultiplier)

RECURSIVE updateComboLoop(_, _, _)
updateComboLoop(hits, i, newMultiplier) ==
    IF i > Len(ThresholdKeys) THEN newMultiplier
    ELSE updateComboLoop(hits, i + 1,
            IF hits >= ThresholdKeys[i]
            THEN COMBO_THRESHOLDS[ThresholdKeys[i]]
            ELSE newMultiplier)

updateCombo(g) ==
    [g EXCEPT !.comboMultiplier =
        updateComboLoop(g.consecutiveHits, 1, COMBO_THRESHOLDS[1])]

\* mutant: ties rounded away from zero
MathRoundAway(tenths) ==
    IF tenths >= 0 THEN (tenths + 5) \div 10 ELSE -((5 - tenths) \div 10)

\* Math.round of tenths / 10: floor(x + 0.5)
MathRound(tenths) == (tenths + 5) \div 10

\* mutant: the points are computed with the multiplier of before the hit
processHitStale(g, targetData) ==
    LET g0 == Call(g, "processHit", targetData.id)
        earned == MathRound(targetTypes[targetData.type].points * g0.comboMultiplier)
        g1 == [g0 EXCEPT !.consecutiveHits = @ + 1]
        g2 == updateCombo(g1)
    IN  [g2 EXCEPT !.score = @ + earned, !.pointsEarned = earned]

processHit(g, targetData) ==
    LET g0 == Call(g, "processHit", targetData.id)
        g1 == [g0 EXCEPT !.consecutiveHits = @ + 1]
        g2 == updateCombo(g1)
        earned == MathRound(targetTypes[targetData.type].points * g2.comboMultiplier)
    IN  [g2 EXCEPT !.score = @ + earned, !.pointsEarned = earned]

\* mutant: a miss costs the points of the latest hit
processMissPenalty(g) ==
    LET g0 == Call(g, "processMiss", 0)
        g1 == [g0 EXCEPT !.consecutiveHits = 0, !.score = @ - g.pointsEarned]
    IN  updateCombo(g1)

\* mutant: a miss takes one hit off the streak
processMissDecrement(g) ==
    LET g0 == Call(g, "processMiss", 0)
        g1 == [g0 EXCEPT !.consecutiveHits = IF @ > 0 THEN @ - 1 ELSE 0]
    IN  updateCombo(g1)

processMiss(g) ==
    LET g0 == Call(g, "processMiss", 0)
        g1 == [g0 EXCEPT !.consecutiveHits = 0]
    IN  updateCombo(g1)

startGameLogic(g) ==
    LET g0 == Call(g, "startGameLogic", 0)
        g1 == [g0 EXCEPT !.score = 0, !.consecutiveHits = 0]
    IN  updateCombo(g1)

(***************************************************************************)
(* Target lifecycle.                                                       *)
(***************************************************************************)
\* mutant: nothing is taken out of the array
\* mutant: the first element goes, whatever the index
spliceFirst(arr, index) == Tail(arr)

spliceNothing(arr, index) == arr

\* arr.splice(index, 1), index counted from 0
splice(arr, index) ==
    IF index < 0 \/ index >= Len(arr) THEN arr
    ELSE SubSeq(arr, 1, index) \o SubSeq(arr, index + 2, Len(arr))

\* mutant: the array loses the element after index
removeTargetNeighbour(g, targetData, index) ==
    LET g0 == Call(g, "removeTarget", targetData.id)
    IN  [g0 EXCEPT !.scene = @ \ {targetData.mesh.uuid},
                   !.physicsWorld = @ \ {targetData.body.id},
                   !.targets = splice(@, index + 1),
                   !.retireCount[targetData.id] = @ + 1]

removeTarget(g, targetData, index) ==
    LET g0 == Call(g, "removeTarget", targetData.id)
    IN  [g0 EXCEPT !.scene = @ \ {targetData.mesh.uuid},
                   !.physicsWorld = @ \ {targetData.body.id},
                   !.targets = splice(@, index),
                   !.retireCount[targetData.id] = @ + 1]

\* mutant: the mesh is not given its back reference
spawnTargetUnlinked(g, type, spawnY) ==
    LET g0 == Call(g, "spawnTarget", g.nextUuid)
        mesh == [uuid |-> g.nextUuid, y |-> spawnY, targetData |-> NoTargetData]
        body == [id |-> g.nextUuid, y |-> spawnY]
        targetData == [mesh |-> mesh, body |-> body, type |-> type, id |-> mesh.uuid]
    IN  [g0 EXCEPT !.scene = @ \cup {mesh.uuid},
                   !.physicsWorld = @ \cup {body.id},
                   !.targets = Append(@, targetData),
                   !.nextUuid = @ + 1,
                   !.retireCount = @ @@ (mesh.uuid :> 0)]

spawnTarget(g, type, spawnY) ==
    LET g0 == Call(g, "spawnTarget", g.nextUuid)
        mesh == [uuid |-> g.nextUuid, y |-> spawnY, targetData |-> g.nextUuid]
        body == [id |-> g.nextUuid, y |-> spawnY]
        targetData == [mesh |-> mesh, body |-> body, type |-> type, id |-> mesh.uuid]
    IN  [g0 EXCEPT !.scene = @ \cup {mesh.uuid},
                   !.physicsWorld = @ \cup {body.id},
                   !.targets = Append(@, targetData),
                   !.nextUuid = @ + 1,
                   !.retireCount = @ @@ (mesh.uuid :> 0)]

\* physicsWorld.step: every body of the world gets the y the engine computes
step(g, newY) ==
    LET g0 == Call(g, "physicsWorld.step", 0)
        moved(t) == IF t.body.id \in g.physicsWorld
                    THEN [t EXCEPT !.body.y = newY[t.body.id]]
                    ELSE t
    IN  [g0 EXCEPT !.targets = [i \in 1..Len(g.targets) |-> moved(g.targets[i])]]

\* mutant: the population is not looked at
spawnDueUncapped(g) == g.timeSinceLastSpawn > g.targetSpawnInterval

\* the condition of the spawn branch of update
\* mutant: a timer equal to the interval is enough
spawnDueAtLeast(g) ==
    g.timeSinceLastSpawn >= g.targetSpawnInterval /\ Len(g.targets) < maxTargets

spawnDue(g) ==
    g.timeSinceLastSpawn > g.targetSpawnInterval /\ Len(g.targets) < maxTargets

\* mutant: the pass synchronizes and retires nothing
syncCallbackKeep(g, index) ==
    LET targetData == g.targets[index + 1]
        synced == [targetData EXCEPT !.mesh.y = targetData.body.y]
        g0 == Call(g, "sync", targetData.id)
    IN  [g0 EXCEPT !.targets[index + 1] = synced]

\* the callback update hands to targets.forEach, index counted from 0
syncCallback(g, index) ==
    LET targetData == g.targets[index + 1]
        synced == [targetData EXCEPT !.mesh.y = targetData.body.y]
        g0 == Call(g, "sync", targetData.id)
        g1 == [g0 EXCEPT !.targets[index + 1] = synced]
    IN  IF synced.body.y < OutOfBoundsY
        THEN removeTarget(g1, synced, index)
        ELSE g1

\* targets.forEach(callback): k runs from 0 to the length the array had when
\* forEach was called; an index the array no longer has is passed over
RECURSIVE forEach(_, _, _)
forEach(g, k, len) ==
    IF k >= len THEN g
    ELSE IF k >= Len(g.targets) THEN forEach(g, k + 1, len)
    ELSE forEach(syncCallback(g, k), k + 1, len)

\* mutant: a spawn leaves the timer running
updateNoReset(g, deltaTime, type, spawnY, interval, newY) ==
    LET g0 == Call(g, "update", deltaTime)
    IN  IF ~g.assetsLoaded THEN g0
        ELSE
          LET g1 == step(g0, newY)
              g2 == [g1 EXCEPT !.timeSinceLastSpawn = @ + deltaTime]
              g3 == IF spawnDue(g2)
                    THEN [spawnTarget(g2, type, spawnY) EXCEPT
                             !.targetSpawnInterval = interval]
                    ELSE g2
          IN  forEach(g3, 0, Len(g3.targets))

\* mutant: the game logic does not wait for the assets
updateUngated(g, deltaTime, type, spawnY, interval, newY) ==
    LET g0 == Call(g, "update", deltaTime)
        g1 == step(g0, newY)
        g2 == [g1 EXCEPT !.timeSinceLastSpawn = @ + deltaTime]
        g3 == IF spawnDue(g2)
              THEN [spawnTarget(g2, type, spawnY) EXCEPT
                       !.timeSinceLastSpawn = 0,
                       !.targetSpawnInterval = interval]
              ELSE g2
    IN  forEach(g3, 0, Len(g3.targets))

update(g, deltaTime, type, spawnY, interval, newY) ==
    LET g0 == Call(g, "update", deltaTime)
    IN  IF ~g.assetsLoaded THEN g0
        ELSE
          LET g1 == step(g0, newY)
              g2 == [g1 EXCEPT !.timeSinceLastSpawn = @ + deltaTime]
              g3 == IF spawnDue(g2)
                    THEN [spawnTarget(g2, type, spawnY) EXCEPT
                             !.timeSinceLastSpawn = 0,
                             !.targetSpawnInterval = interval]
                    ELSE g2
          IN  forEach(g3, 0, Len(g3.targets))

\* mutant: nothing is drawn until the assets are loaded
animateReadyOnly(g, deltaTime, type, spawnY, interval, newY) ==
    LET g1 == update(Call(g, "animate", 0), deltaTime, type, spawnY, interval, newY)
    IN  IF g.assetsLoaded THEN Call(g1, "render", 0) ELSE g1

animate(g, deltaTime, type, spawnY, interval, newY) ==
    Call(update(Call(g, "animate", 0), deltaTime, type, spawnY, interval, newY),
         "render", 0)

(***************************************************************************)
(* Hit resolution.                                                         *)
(***************************************************************************)
\* mutant: the target is never found
findIndexNone(arr, id) == -1

\* targets.findIndex(t => t.id === id), counted from 0, -1 when there is none
findIndex(arr, id) ==
    IF \E i \in 1..Len(arr) : arr[i].id = id
    THEN (CHOOSE i \in 1..Len(arr) :
            arr[i].id = id /\ \A j \in 1..(i - 1) : arr[j].id # id) - 1
    ELSE -1

\* the object hitObject.userData.targetData refers to
Deref(g, ref) == CHOOSE t \in {g.targets[i] : i \in 1..Len(g.targets)} : t.id = ref

shoot(g, intersects) ==
    LET g0 == Call(g, "shoot", 0)
    IN  IF ~g.assetsLoaded THEN g0
        ELSE IF Len(intersects) > 0
        THEN LET hitObject == intersects[1]
                 ref == hitObject.targetData
                 gi == Call(g0, "intersect", hitObject.uuid)
             IN  IF ref # NoTargetData
                 THEN LET targetData == Deref(gi, ref)
                          g1 == processHit(gi, targetData)
                          targetIndex == findIndex(g1.targets, targetData.id)
                      IN  IF targetIndex > -1
                          THEN removeTarget(g1, targetData, targetIndex)
                          ELSE Call(g1, "warn", 0)
                 ELSE processMiss(Call(gi, "warn", 0))
        ELSE processMiss(g0)

(***************************************************************************)
(* Asset loading: the callbacks init gives the loading manager.  One item  *)
(* ends, loaded or failed; the manager reports a failure to the error      *)
(* callback, every end to the progress callback, and the end of the last   *)
(* item to the load callback.                                              *)
(***************************************************************************)
onError(g) ==
    [Call(g, "onError", 0) EXCEPT
        !.loadingElement.innerText = "Error loading assets. Please refresh."]

onProgress(g) == [Call(g, "onProgress", 0) EXCEPT !.loadingElement.display = "block"]

onLoad(g) ==
    startGameLogic([Call(g, "onLoad", 0) EXCEPT
                        !.assetsLoaded = TRUE,
                        !.loadingElement.display = "none"])

itemEnd(g, ok) ==
    LET g0 == Call(g, "itemEnd", 0)
        g1 == IF ok THEN g0 ELSE onError(g0)
        g2 == onProgress([g1 EXCEPT !.itemsLoaded = @ + 1])
    IN  IF g2.itemsLoaded = g2.itemsTotal THEN onLoad(g2) ELSE g2

\* the state when init() returns; audio: the audio context was created
init(audio) ==
    [assetsLoaded |-> FALSE,
     audioContext |-> audio,
     itemsLoaded |-> 0,
     itemsTotal |-> IF audio THEN Cardinality(SoundFiles) ELSE 0,
     loadingElement |-> [display |-> "", innerText |-> "Loading..."],
     score |-> 0,
     consecutiveHits |-> 0,
     comboMultiplier |-> 10,
     targets |-> <<>>,
     scene |-> {},
     physicsWorld |-> {},
     targetSpawnInterval |-> InitialSpawnInterval,
     timeSinceLastSpawn |-> 0,
     nextUuid |-> 1,
     pointsEarned |-> 0,
     trace |-> <<>>,
     retireCount |-> <<>>,
     hitsSinceMiss |-> 0,
     expectedScore |-> 0,
     spawnsLeft |-> 0,
     roundTrip |-> [open |-> FALSE, done |-> FALSE, ids |-> <<>>]]

(***************************************************************************)
(* Observers of the scoring contract: what a handler's calls make of the   *)
(* number of hits since the last miss and of the prescribed score.  They   *)
(* read the calls and the table of the contract, never the program's       *)
(* consecutiveHits, comboMultiplier or score.                              *)
(***************************************************************************)
\* the threshold table of the scoring contract, in tenths
TableMultiplier(hits) ==
    IF hits <= 4 THEN 10
    ELSE IF hits <= 9 THEN 15
    ELSE IF hits <= 14 THEN 20
    ELSE 30

\* the integers within 1 of tenths / 10
Near(tenths) == {n \in -100..100 : 10 * n - 10 <= tenths /\ tenths <= 10 * n + 10}

\* the integer nearest to tenths / 10, a tie going to the greater one
NearestTieUp(tenths) ==
    CHOOSE n \in Near(tenths) : 10 * n - 5 <= tenths /\ tenths < 10 * n + 5

\* the integer nearest to tenths / 10, a tie going away from zero
NearestTieAway(tenths) ==
    CHOOSE n \in Near(tenths) :
        \/ 10 * n - 5 < tenths /\ tenths < 10 * n + 5
        \/ tenths >= 0 /\ tenths = 10 * n - 5
        \/ tenths < 0 /\ tenths = 10 * n + 5

Elements(arr) == {arr[i] : i \in 1..Len(arr)}

\* the type of the target of array arr whose id is id
TypeOfId(arr, id) == (CHOOSE t \in Elements(arr) : t.id = id).type

Calls(calls, op) == SelectSeq(calls, LAMBDA c : c.op = op)

RECURSIVE Observe(_, _, _, _)
Observe(calls, arr, hits, sum) ==
    IF calls = <<>> THEN [hits |-> hits, sum |-> sum]
    ELSE LET c == Head(calls)
         IN  IF c.op = "processHit"
             THEN Observe(Tail(calls), arr, hits + 1,
                    sum + NearestTieUp(targetTypes[TypeOfId(arr, c.id)].points
                                        * TableMultiplier(hits + 1)))
             ELSE IF c.op = "processMiss" THEN Observe(Tail(calls), arr, 0, sum)
             ELSE IF c.op = "startGameLogic" THEN Observe(Tail(calls), arr, 0, 0)
             ELSE Observe(Tail(calls), arr, hits, sum)

\* a handler starts with no call made
Begin(g) == [g EXCEPT !.trace = <<>>]

\* the ids of the tracking array, in its order
Ids(arr) == [i \in 1..Len(arr) |-> arr[i].id]

\* the round trip of the latest spawned target.  A handler that spawns and
\* retires nothing opens it and keeps the array it found; while open, a frame
\* that spawns nothing and whose pass retires that target and no other ends
\* it (done); any other spawn or retirement drops it.
ObserveRoundTrip(g, g2) ==
    LET spawned == Calls(g2.trace, "spawnTarget")
        retired == Calls(g2.trace, "removeTarget")
    IN  IF spawned = <<>> /\ retired = <<>> THEN g.roundTrip
        ELSE IF spawned # <<>> /\ retired = <<>>
        THEN [open |-> TRUE, done |-> FALSE, ids |-> Ids(g.targets)]
        ELSE IF /\ g.roundTrip.open
                /\ spawned = <<>>
                /\ g2.trace[1].op = "animate"
                /\ Len(retired) = 1
                /\ retired[1].id = g.nextUuid - 1
        THEN [open |-> FALSE, done |-> TRUE, ids |-> g.roundTrip.ids]
        ELSE [open |-> FALSE, done |-> FALSE, ids |-> <<>>]

\* the state g2 a handler made of g, with the observers and the budget brought up
Observed(g, g2) ==
    LET o == Observe(g2.trace, g.targets, g.hitsSinceMiss, g.expectedScore)
    IN  [g2 EXCEPT !.hitsSinceMiss = o.hits,
                   !.expectedScore = o.sum,
                   !.spawnsLeft = @ - Len(Calls(g2.trace, "spawnTarget")),
                   !.roundTrip = ObserveRoundTrip(g, g2)]

\* the variables hold the state g
Holds(g) ==
    /\ assetsLoaded = g.assetsLoaded
    /\ audioContext = g.audioContext
    /\ itemsLoaded = g.itemsLoaded
    /\ itemsTotal = g.itemsTotal
    /\ loadingElement = g.loadingElement
    /\ score = g.score
    /\ consecutiveHits = g.consecutiveHits
    /\ comboMultiplier = g.comboMultiplier
    /\ targets = g.targets
    /\ scene = g.scene
    /\ physicsWorld = g.physicsWorld
    /\ targetSpawnInterval = g.targetSpawnInterval
    /\ timeSinceLastSpawn = g.timeSinceLastSpawn
    /\ nextUuid = g.nextUuid
    /\ pointsEarned = g.pointsEarned
    /\ trace = g.trace
    /\ retireCount = g.retireCount
    /\ hitsSinceMiss = g.hitsSinceMiss
    /\ expectedScore = g.expectedScore
    /\ spawnsLeft = g.spawnsLeft
    /\ roundTrip = g.roundTrip

Commit(g) ==
    /\ assetsLoaded' = g.assetsLoaded
    /\ audioContext' = g.audioContext
    /\ itemsLoaded' = g.itemsLoaded
    /\ itemsTotal' = g.itemsTotal
    /\ loadingElement' = g.loadingElement
    /\ score' = g.score
    /\ consecutiveHits' = g.consecutiveHits
    /\ comboMultiplier' = g.comboMultiplier
    /\ targets' = g.targets
    /\ scene' = g.scene
    /\ physicsWorld' = g.physicsWorld
    /\ targetSpawnInterval' = g.targetSpawnInterval
    /\ timeSinceLastSpawn' = g.timeSinceLastSpawn
    /\ nextUuid' = g.nextUuid
    /\ pointsEarned' = g.pointsEarned
    /\ trace' = g.trace
    /\ retireCount' = g.retireCount
    /\ hitsSinceMiss' = g.hitsSinceMiss
    /\ expectedScore' = g.expectedScore
    /\ spawnsLeft' = g.spawnsLeft
    /\ roundTrip' = g.roundTrip

(***************************************************************************)
(* The handlers as actions.                                                *)
(***************************************************************************)
\* the loader ends one item
ItemEnd(ok) ==
    /\ itemsLoaded < itemsTotal
    /\ \E g2 \in {itemEnd(Begin(G), ok)} :
        \E g \in {Observed(G, g2)} : Commit(g)

\* one frame of the animation loop
Frame(deltaTime, type, spawnY, interval, newY) ==
    \E g2 \in {animate(Begin(G), deltaTime, type, spawnY, interval, newY)} :
      \E g \in {Observed(G, g2)} :
        /\ g.spawnsLeft >= 0
        /\ g.timeSinceLastSpawn <= MaxTime
        /\ Commit(g)

\* one pointerdown event
Pointerdown(intersects) ==
    \E g2 \in {shoot(Begin(G), intersects)} :
        \E g \in {Observed(G, g2)} : Commit(g)

\* the meshes shoot hands to the raycaster
Meshes(arr) == {arr[i].mesh : i \in 1..Len(arr)}

\* what the raycaster may return: distinct meshes, nearest first
RECURSIVE Rays(_, _)
Rays(meshes, n) ==
    IF n = 0 THEN {<<>>}
    ELSE {<<>>} \cup
         UNION {{<<m>> \o r : r \in Rays(meshes \ {m}, n - 1)} : m \in meshes}

\* a physics step that moves no body of g
AtRest(g) ==
    [id \in g.physicsWorld |-> (CHOOSE t \in Elements(g.targets) : t.body.id = id).body.y]

\* Math.random() is drawn from only by a frame that spawns: the choices a
\* frame of deltaTime has for a random input with values in S
Drawn(S, deltaTime) ==
    IF assetsLoaded /\ spawnDue([G EXCEPT !.timeSinceLastSpawn = @ + deltaTime])
    THEN S
    ELSE {CHOOSE x \in S : TRUE}

(***************************************************************************)
(* Spec: every input free, a short session.                                *)
(***************************************************************************)
Init == \E audio \in BOOLEAN :
            Holds([init(audio) EXCEPT !.spawnsLeft = MaxSpawns])

LoadItem == \E ok \in BOOLEAN : ItemEnd(ok)

Animate ==
    \E deltaTime \in DeltaTimes, newY \in [physicsWorld -> BodyYs] :
        \E type \in Drawn(TypeKeys, deltaTime), spawnY \in Drawn(SpawnYs, deltaTime),
           interval \in Drawn(SpawnIntervals, deltaTime) :
            Frame(deltaTime, type, spawnY, interval, newY)

Shoot == \E intersects \in Rays(Meshes(targets), MaxIntersects) : Pointerdown(intersects)

Next == LoadItem \/ Animate \/ Shoot

Spec == Init /\ [][Next]_vars

\* the same session with its scheduling: requestAnimationFrame keeps calling
\* animate, and every load that was started ends, in success or in error
SpecLive == Spec /\ WF_vars(Animate) /\ WF_vars(LoadItem)

(***************************************************************************)
(* SpecStreak: long streaks.  The session starts after a warm-up the model *)
(* plays with the program's own operations: every sound loads, then k      *)
(* times (k up to MaxWarmUp) frames pass until a STANDARD target spawns    *)
(* and the player hits it.  From there every input is free, but the player *)
(* keeps the field nearly empty (at most MaxLive targets alive) and the    *)
(* bodies stay where they spawned.                                         *)
(***************************************************************************)
RECURSIVE Loaded(_)
Loaded(g) ==
    IF g.itemsLoaded < g.itemsTotal
    THEN Loaded(Observed(g, itemEnd(Begin(g), TRUE)))
    ELSE g

RECURSIVE UntilSpawn(_)
UntilSpawn(g) ==
    IF g.targets # <<>> THEN g
    ELSE UntilSpawn(Observed(g,
            animate(Begin(g), Max(DeltaTimes), "STANDARD", Min(SpawnYs),
                    Min(SpawnIntervals), AtRest(g))))

RECURSIVE WarmUp(_)
WarmUp(k) ==
    IF k = 0 THEN Loaded(init(TRUE))
    ELSE LET g == UntilSpawn(WarmUp(k - 1))
         IN  Observed(g, shoot(Begin(g), <<g.targets[1].mesh>>))

InitStreak ==
    \E k \in 0..MaxWarmUp :
        Holds([WarmUp(k) EXCEPT !.spawnsLeft = MaxStreakSpawns])

AnimateStreak ==
    \E deltaTime \in DeltaTimes :
        \E type \in Drawn(TypeKeys, deltaTime), spawnY \in Drawn(SpawnYs, deltaTime),
           interval \in Drawn({Min(SpawnIntervals)}, deltaTime) :
            /\ Frame(deltaTime, type, spawnY, interval, AtRest(G))
            /\ Len(targets') <= MaxLive

NextStreak == AnimateStreak \/ Shoot

SpecStreak == InitStreak /\ [][NextStreak]_vars

(***************************************************************************)
(* SpecFill: the population cap.  The player lets the field fill up and    *)
(* shoots only at a full field, at its oldest or its newest target; every  *)
(* target is a STANDARD one, every sound loads and the bodies stay where   *)
(* they spawned.                                                           *)
(***************************************************************************)
InitFill == Holds([init(TRUE) EXCEPT !.spawnsLeft = MaxFillSpawns])

LoadAll == ItemEnd(TRUE)

AnimateFill ==
    \E deltaTime \in DeltaTimes :
        \E spawnY \in Drawn(SpawnYs, deltaTime),
           interval \in Drawn({Min(SpawnIntervals)}, deltaTime) :
            Frame(deltaTime, "STANDARD", spawnY, interval, AtRest(G))

ShootFill ==
    /\ Len(targets) = maxTargets
    /\ \E intersects \in Rays({targets[1].mesh, targets[Len(targets)].mesh}, 1) :
            Pointerdown(intersects)

NextFill == LoadAll \/ AnimateFill \/ ShootFill

SpecFill == InitFill /\ [][NextFill]_vars

(***************************************************************************)
(* SpecPrune: falling targets under the frame loop's scheduling.  Every    *)
(* sound has loaded; targets are STANDARD and respawn after the shortest   *)
(* interval; each frame takes every body below the bound or above it, and  *)
(* the player shoots freely.  requestAnimationFrame re-arms animate in     *)
(* every frame, so frames keep occurring: weak fairness of the frame       *)
(* action.                                                                 *)
(***************************************************************************)
InitPrune == Holds([Loaded(init(TRUE)) EXCEPT !.spawnsLeft = MaxSpawns])

AnimatePrune ==
    \E deltaTime \in DeltaTimes, newY \in [physicsWorld -> {Min(BodyYs), Max(BodyYs)}] :
        \E spawnY \in Drawn(SpawnYs, deltaTime),
           interval \in Drawn({Min(SpawnIntervals)}, deltaTime) :
            Frame(deltaTime, "STANDARD", spawnY, interval, newY)

NextPrune == AnimatePrune \/ Shoot

SpecPrune == InitPrune /\ [][NextPrune]_vars /\ WF_vars(AnimatePrune)

(***************************************************************************)
(* The calls of the latest handler.                                        *)
(***************************************************************************)
\* the latest handler was handler op, run with the assets ready
Ran(op) == trace # <<>> /\ trace[1].op = op /\ assetsLoaded

Hit == Ran("shoot") /\ Calls(trace, "processHit") # <<>>

Miss == Ran("shoot") /\ Calls(trace, "processMiss") # <<>>

\* the target the latest shoot handed to processHit had type k
HitType(k) ==
    /\ Hit'
    /\ TypeOfId(targets, Calls(trace', "processHit")[1].id) = k

(***************************************************************************)
(* C1.  In every reachable state comboMultiplier is the value the          *)
(* threshold table gives for the current consecutiveHits: 1.0 for 0..4,    *)
(* 1.5 for 5..9, 2.0 for 10..14, 3.0 for 15 and above.                     *)
(***************************************************************************)
C1_ComboFollowsTable == comboMultiplier = TableMultiplier(consecutiveHits)

\* a streak in the last band, reached by a hit
C1_Witness == Hit /\ consecutiveHits >= 15 /\ comboMultiplier = 30

(***************************************************************************)
(* C2.  After any sequence of hits and misses since session start, score   *)
(* is the sum over all hits of round(points * multiplier), the multiplier  *)
(* of a hit being the table value for the number of consecutive hits       *)
(* including that hit; misses add nothing.  (round is Math.round; its      *)
(* ties are the subject of C3.)                                            *)
(***************************************************************************)
C2_ScoreIsSumOfHits == score = expectedScore

\* a PENALTY hit that brings the streak to 10 adds -30
C2_Witness == Hit /\ consecutiveHits = 10 /\ pointsEarned = -30 /\ score = expectedScore

(***************************************************************************)
(* C3.  As claimed: pointsEarned in processHit is points * comboMultiplier *)
(* rounded to the nearest integer with ties rounded away from zero, for    *)
(* every target type and every multiplier.                                 *)
(***************************************************************************)
C3_TiesAwayFromZero ==
    [][\A k \in TypeKeys :
        HitType(k) =>
            pointsEarned' = NearestTieAway(targetTypes[k].points * comboMultiplier')]_vars

(***************************************************************************)
(* C3, amended.  pointsEarned in processHit is points * comboMultiplier    *)
(* rounded to the nearest integer with ties rounded towards positive       *)
(* infinity, for every target type and every multiplier: PENALTY at 1.5    *)
(* (-22.5) earns -22, BONUS at 1.5 (37.5) earns 38.                        *)
(***************************************************************************)
C3_TiesTowardsPositive ==
    [][\A k \in TypeKeys :
        HitType(k) =>
            pointsEarned' = NearestTieUp(targetTypes[k].points * comboMultiplier')]_vars

\* the negative tie: a PENALTY hit at multiplier 1.5
C3_Witness == Hit /\ comboMultiplier = 15 /\ pointsEarned = -22

(***************************************************************************)
(* C4.  consecutiveHits is never negative and is the number of hits        *)
(* processed since the most recent miss (or since session start): every    *)
(* hit, whatever the target type, increments it by exactly 1, and every    *)
(* miss sets it to 0 whatever it was.                                      *)
(***************************************************************************)
C4_ConsecutiveHitsCountsHits ==
    [][/\ consecutiveHits' >= 0
       /\ consecutiveHits' = hitsSinceMiss'
       /\ Hit' => consecutiveHits' = consecutiveHits + 1
       /\ Miss' => consecutiveHits' = 0]_vars

\* a PENALTY hit carried a long streak on
C4_Witness == Hit /\ pointsEarned < 0 /\ consecutiveHits >= 10 /\ hitsSinceMiss >= 10

(***************************************************************************)
(* C5.  The number of tracked targets never exceeds maxTargets, in any     *)
(* state reachable by any interleaving of update ticks and shoot events.   *)
(***************************************************************************)
C5_PopulationCap == Len(targets) <= maxTargets

\* a full field at a frame whose spawn timer is past the interval
C5_Witness ==
    /\ Ran("animate")
    /\ Len(targets) = maxTargets
    /\ timeSinceLastSpawn > targetSpawnInterval

(***************************************************************************)
(* C6.  Every target is retired (removeTarget called on it) at most once   *)
(* in its lifetime, by a hit in shoot or by the out-of-bounds prune in     *)
(* update, never by both: once a target has been retired by one path it is *)
(* never observed (intersected by a ray, visited by the prune pass) or     *)
(* retired again by the other.                                             *)
(***************************************************************************)
\* the target of uuid id was retired before the handler began
RetiredBefore(id) == id \in DOMAIN retireCount /\ retireCount[id] > 0

C6_RetiredAtMostOnce ==
    [][/\ \A id \in DOMAIN retireCount' : retireCount'[id] <= 1
       /\ \A i \in 1..Len(trace') :
            trace'[i].op \in {"intersect", "sync", "processHit", "removeTarget"}
                => ~RetiredBefore(trace'[i].id)]_vars

\* a frame pruned one target after a shot had retired another
C6_Witness ==
    /\ Ran("animate")
    /\ Calls(trace, "removeTarget") # <<>>
    /\ \E id \in DOMAIN retireCount :
        /\ retireCount[id] = 1
        /\ id # Calls(trace, "removeTarget")[1].id
        /\ id < Calls(trace, "removeTarget")[1].id
        /\ score # 0

(***************************************************************************)
(* C7.  No dangling cross-references: after every completed spawn, shoot   *)
(* or update, a target is in the tracking array if and only if its mesh is *)
(* registered in the scene and its body is registered in the physics       *)
(* world; every retired target is absent from all three, and removeTarget  *)
(* removes from the tracking array exactly the target it deregistered.     *)
(***************************************************************************)
C7_NoDanglingReferences ==
    /\ {targets[i].mesh.uuid : i \in 1..Len(targets)} = scene
    /\ {targets[i].body.id : i \in 1..Len(targets)} = physicsWorld
    /\ \A i, j \in 1..Len(targets) : targets[i].id = targets[j].id => i = j
    /\ \A id \in DOMAIN retireCount :
        retireCount[id] > 0 =>
            /\ id \notin scene
            /\ id \notin physicsWorld
            /\ \A i \in 1..Len(targets) : targets[i].id # id
    /\ \A id \in DOMAIN retireCount :
        retireCount[id] = 0 => \E i \in 1..Len(targets) : targets[i].id = id

\* a target was retired from in front of one that stays tracked
C7_Witness ==
    /\ Calls(trace, "removeTarget") # <<>>
    /\ targets # <<>>
    /\ \E i \in 1..Len(targets) : targets[i].id > Calls(trace, "removeTarget")[1].id

(***************************************************************************)
(* C8.  In one synchronize-and-prune pass of update, every target tracked  *)
(* at the start of the pass is processed exactly once, also when other     *)
(* targets are removed during the pass; so after the pass no tracked       *)
(* target has body y below -10 and every tracked target's mesh position    *)
(* equals its body position.                                               *)
(***************************************************************************)
C8_PassProcessesEveryTarget ==
    Ran("animate") =>
        \A i \in 1..Len(targets) :
            /\ Len(SelectSeq(trace, LAMBDA c : c.op = "sync" /\ c.id = targets[i].id)) = 1
            /\ targets[i].body.y >= OutOfBoundsY
            /\ targets[i].mesh.y = targets[i].body.y

(***************************************************************************)
(* C9.  Each shoot invocation made while assets are ready executes exactly *)
(* one of the hit path (processHit) or the miss path (processMiss), and    *)
(* retires at most one target; when the hit path runs, exactly one target  *)
(* is retired and it is the target owning the nearest intersected mesh.    *)
(***************************************************************************)
C9_OnePathOneTarget ==
    [][Ran("shoot")' =>
        LET hits == Calls(trace', "processHit")
            misses == Calls(trace', "processMiss")
            removed == Calls(trace', "removeTarget")
            nearest == Calls(trace', "intersect")
        IN  /\ Len(hits) + Len(misses) = 1
            /\ Len(removed) <= 1
            /\ Len(targets') >= Len(targets) - 1
            /\ hits # <<>> =>
                /\ Len(removed) = 1
                /\ Len(nearest) = 1
                /\ removed[1].id = nearest[1].id
                /\ hits[1].id = nearest[1].id
                /\ \E i \in 1..Len(targets) :
                    /\ targets[i].mesh.uuid = nearest[1].id
                    /\ targets[i].mesh.targetData = targets[i].id
                    /\ targets' = splice(targets, i - 1)
            /\ hits = <<>> => targets' = targets]_vars

\* a shot through two meshes retired the nearer one alone
C9_Witness ==
    /\ Hit
    /\ Len(Calls(trace, "removeTarget")) = 1
    /\ targets # <<>>
    /\ \E i \in 1..Len(targets) : targets[i].id < Calls(trace, "removeTarget")[1].id

(***************************************************************************)
(* C10.  A miss (shoot with no intersection) changes only the combo state: *)
(* score, the set of tracked targets (and their scene and physics          *)
(* registrations), timeSinceLastSpawn and targetSpawnInterval are all      *)
(* unchanged by it.                                                        *)
(***************************************************************************)
C10_MissTouchesComboOnly ==
    [][(Miss' /\ Calls(trace', "intersect") = <<>>) =>
        /\ consecutiveHits' = 0
        /\ UNCHANGED <<score, targets, scene, physicsWorld, timeSinceLastSpawn,
                       targetSpawnInterval, nextUuid, assetsLoaded, retireCount>>]_vars

\* a miss on a field with targets, after points were scored
C10_Witness ==
    /\ Miss
    /\ Calls(trace, "intersect") = <<>>
    /\ consecutiveHits = 0
    /\ score # 0
    /\ targets # <<>>

(***************************************************************************)
(* C11.  Until the all-assets-loaded event has fired (assetsLoaded is      *)
(* false), neither update ticks nor shoot events change any game state:    *)
(* score, consecutiveHits, comboMultiplier, the tracked targets,           *)
(* timeSinceLastSpawn and targetSpawnInterval all keep their initial       *)
(* values, and the physics world is not stepped.                           *)
(***************************************************************************)
C11_NothingBeforeReady ==
    [][~assetsLoaded' =>
        /\ UNCHANGED <<score, consecutiveHits, comboMultiplier, targets, scene,
                       physicsWorld, timeSinceLastSpawn, targetSpawnInterval, nextUuid>>
        /\ score' = 0 /\ consecutiveHits' = 0 /\ comboMultiplier' = 10
        /\ targets' = <<>> /\ scene' = {} /\ physicsWorld' = {}
        /\ timeSinceLastSpawn' = 0 /\ targetSpawnInterval' = InitialSpawnInterval
        /\ \A i \in 1..Len(trace') :
            trace'[i].op \notin {"physicsWorld.step", "spawnTarget", "sync",
                                 "processHit", "processMiss", "removeTarget"}]_vars

\* a frame ran while some, not all, of the sounds had ended loading
C11_Witness ==
    /\ ~assetsLoaded
    /\ itemsLoaded > 0
    /\ trace # <<>>
    /\ trace[1].op = "animate"

(***************************************************************************)
(* C12.  When the audio context cannot be created in init, the game        *)
(* degrades gracefully: the session still becomes ready, that is,          *)
(* assetsLoaded is eventually true.                                        *)
(* Refuted: with no audio context loadSounds is never called, the loading  *)
(* manager is given no item, and its onLoad callback never fires.          *)
(***************************************************************************)
C12_ReadyWithoutAudio == (~audioContext) ~> assetsLoaded

(***************************************************************************)
(* C13.  After an asset load failure (the error callback fired for any     *)
(* item) gameplay never becomes ready: assetsLoaded stays false for the    *)
(* rest of the session and the error message stays on the loading UI.      *)
(* Refuted: the failed item is still counted as ended, so onLoad fires     *)
(* once the last item has ended and hides the loading indicator.           *)
(***************************************************************************)
C13_FailureBlocksReadiness ==
    loadingElement.innerText = "Error loading assets. Please refresh."
        => ~assetsLoaded /\ loadingElement.display # "none"

(***************************************************************************)
(* C14.  In every ready tick, after the spawn timer is advanced by         *)
(* deltaTime, a spawn happens iff targets.length < maxTargets and the      *)
(* timer has reached the interval; when the condition fails the tick adds  *)
(* no target and leaves targetSpawnInterval unchanged.                     *)
(***************************************************************************)
\* the timer of the tick being taken, after update has added its deltaTime
SpawnTimer == timeSinceLastSpawn + trace'[2].id

SpawnRule(reached) ==
    assetsLoaded /\ trace'[1].op = "animate" =>
        LET spawned == Calls(trace', "spawnTarget") # <<>>
        IN  /\ spawned <=> Len(targets) < maxTargets /\ reached
            /\ ~spawned =>
                /\ {t.id : t \in Elements(targets')} \subseteq {t.id : t \in Elements(targets)}
                /\ nextUuid' = nextUuid
                /\ targetSpawnInterval' = targetSpawnInterval
                /\ timeSinceLastSpawn' = SpawnTimer

\* as claimed: the boundary case timer = interval spawns
C14_SpawnAtInterval == [][SpawnRule(SpawnTimer >= targetSpawnInterval)]_vars

\* as the code has it: the timer must exceed the interval
C14_SpawnPastInterval == [][SpawnRule(SpawnTimer > targetSpawnInterval)]_vars

\* a ready tick brought the timer exactly to the interval, below the cap
C14_Witness ==
    /\ Ran("animate")
    /\ trace[2].id > 0
    /\ Calls(trace, "spawnTarget") = <<>>
    /\ timeSinceLastSpawn = targetSpawnInterval
    /\ Len(targets) < maxTargets

(***************************************************************************)
(* C15.  A tick performs at most one spawn; each spawn appends exactly one *)
(* new target to the tracking array, resets timeSinceLastSpawn to 0 and    *)
(* resamples targetSpawnInterval; in every reachable state                 *)
(* targetSpawnInterval lies within [0.8, 1.5] s, so the deltaTime          *)
(* accumulated between two consecutive spawns is at least 0.8 s.           *)
(* timeSinceLastSpawn is that accumulated time: it starts at 0, only a     *)
(* ready tick changes it, by adding its deltaTime, and a spawn resets it.  *)
(***************************************************************************)
MinSpawnInterval == 8
MaxSpawnInterval == 15

C15_OneSpawnPerInterval ==
    [][/\ targetSpawnInterval' \in MinSpawnInterval..MaxSpawnInterval
       /\ IF assetsLoaded /\ trace'[1].op = "animate"
          THEN LET spawns == Calls(trace', "spawnTarget")
                   removed == {c.id : c \in Elements(Calls(trace', "removeTarget"))}
               IN  /\ Len(spawns) <= 1
                   /\ spawns = <<>> =>
                        /\ timeSinceLastSpawn' = SpawnTimer
                        /\ targetSpawnInterval' = targetSpawnInterval
                   /\ spawns # <<>> =>
                        /\ SpawnTimer >= MinSpawnInterval
                        /\ timeSinceLastSpawn' = 0
                        /\ nextUuid' = nextUuid + 1
                        /\ spawns[1].id = nextUuid
                        /\ nextUuid \notin {t.id : t \in Elements(targets)}
                        /\ targets' # <<>>
                        /\ targets'[Len(targets')].id = nextUuid
                        /\ Len(targets') = Len(targets) + 1 - Cardinality(removed)
          ELSE UNCHANGED <<timeSinceLastSpawn, targetSpawnInterval>>]_vars

\* the second spawn of a session, in a tick that advanced the timer
C15_Witness ==
    /\ Ran("animate")
    /\ Calls(trace, "spawnTarget") # <<>>
    /\ nextUuid = 3
    /\ trace[2].id > 0
    /\ timeSinceLastSpawn = 0

(***************************************************************************)
(* C16.  While tracked, every mesh maps back to exactly one target: for    *)
(* every tracked target t, t.mesh.userData.targetData is t itself, no two  *)
(* tracked targets share an id or a mesh, and so the two defensive         *)
(* branches of shoot (a hit mesh without targetData, a hit target not      *)
(* found in the tracking array), which both log a warning, are never       *)
(* reached.                                                                *)
(***************************************************************************)
C16_MeshMapsBack ==
    /\ \A i \in 1..Len(targets) :
        /\ targets[i].mesh.targetData = targets[i].id
        /\ targets[i].mesh.uuid = targets[i].id
        /\ \A j \in 1..Len(targets) :
            (targets[i].id = targets[j].id \/ targets[i].mesh.uuid = targets[j].mesh.uuid)
                => i = j
    /\ Calls(trace, "warn") = <<>>

\* a shot hit the first of two tracked targets and retired it by its own index
C16_Witness ==
    /\ Hit
    /\ Len(targets) = 1
    /\ \E c \in Elements(Calls(trace, "removeTarget")) : c.id < targets[1].id

(***************************************************************************)
(* C17.  If a tracked target's body stays below y = -10 and ready ticks    *)
(* keep occurring, that target is eventually retired, whatever other       *)
(* targets are spawned, hit or pruned in the meantime.  Stated for every   *)
(* target id: a target that is tracked with its body below the bound is    *)
(* later either no longer tracked or no longer below.                      *)
(* The pass can skip a target when it retires the one before it, but only  *)
(* older targets stand before it and each skip uses one of them up.        *)
(***************************************************************************)
Tracked(id) == \E i \in 1..Len(targets) : targets[i].id = id

Below(id) ==
    \E i \in 1..Len(targets) : targets[i].id = id /\ targets[i].body.y < OutOfBoundsY

C17_FallenIsRetired ==
    \A id \in 1..MaxSpawns : Below(id) ~> (~Tracked(id) \/ ~Below(id))

\* a prune pass ran, retired the target before this one and passed it over
C17_Witness ==
    /\ Ran("animate")
    /\ \E i \in 1..Len(targets) :
        /\ targets[i].body.y < OutOfBoundsY
        /\ Calls(trace, "removeTarget") # <<>>
        /\ \A c \in Elements(Calls(trace, "sync")) : c.id # targets[i].id

(***************************************************************************)
(* C18.  Round trip: spawning a target and then retiring that same target  *)
(* by the out-of-bounds prune, with no other spawn or retirement in        *)
(* between, leaves the tracking array with the same length and the same    *)
(* members in the same order as before the spawn.                          *)
(***************************************************************************)
C18_SpawnThenPruneRestores ==
    roundTrip.done =>
        /\ Len(targets) = Len(roundTrip.ids)
        /\ Ids(targets) = roundTrip.ids

\* the round trip of a second target has just ended, the first is still tracked
C18_Witness ==
    /\ roundTrip.done
    /\ targets # <<>>
    /\ Ran("animate")
    /\ Calls(trace, "removeTarget") # <<>>

(***************************************************************************)
(* C19.  In every frame of the animation loop the order is update and then *)
(* render, and render happens in every frame, also before the assets are   *)
(* ready, when update does nothing; within a ready update the order is     *)
(* physics step, then spawn check, then the synchronize-and-prune pass.    *)
(***************************************************************************)
C19_FrameOrder ==
    trace # <<>> /\ trace[1].op = "animate" =>
        /\ Len(trace) >= 3
        /\ trace[2].op = "update"
        /\ trace[Len(trace)].op = "render"
        /\ \A i \in 3..Len(trace) - 1 : trace[i].op \notin {"animate", "update", "render"}
        /\ ~assetsLoaded => Len(trace) = 3
        /\ assetsLoaded =>
            /\ trace[3].op = "physicsWorld.step"
            /\ \A i \in 4..Len(trace) - 1 :
                /\ trace[i].op \in {"spawnTarget", "sync", "removeTarget"}
                /\ trace[i].op = "spawnTarget" => i = 4

\* a ready frame that stepped the physics, spawned, and pruned in its pass
C19_Witness ==
    /\ Ran("animate")
    /\ Calls(trace, "physicsWorld.step") # <<>>
    /\ Calls(trace, "spawnTarget") # <<>>
    /\ Calls(trace, "sync") # <<>>
    /\ Calls(trace, "removeTarget") # <<>>

====
